---- MODULE Spec2Model ----
(***************************************************************************)
(* The two experience collectors of graph_env: MultiAgentCollector (the    *)
(* basic variant) and CollectiveExperienceCollector (the collective        *)
(* variant).  One collect() call is a loop of ticks; a tick is             *)
(*   StepEnv      policy query and env.step for every active lane          *)
(*   Lane...      one iteration of the per-lane reconciliation loop        *)
(*   Add          the batched buffer.add                                   *)
(*   Finish       statistics, completion resets, trimming, target check    *)
(* The environment, the policy and the buffer are external: the            *)
(* environment's answers (next agent, termination flags, info flags) are   *)
(* drawn nondeterministically; after a reset its agent selector is back at *)
(* the first agent.                                                        *)
(***************************************************************************)
EXTENDS Integers, Sequences, FiniteSets, TLC

\* ------------------------------------------------------------------ bounds
NumEnvs == 2          \* env_num: parallel environments
AgentsNum == 2        \* agents_num: agents per environment
MaxLaneTicks == 4     \* lane iterations explored, summed over all collect calls
MaxTarget == 3        \* largest n_step / n_episode passed to collect
ScenarioTicks == 4    \* ticks of the run with a fixed turn order

\* Python's None for n_step / n_episode, and the "empty" sentinel of the
\* ready / filling arrays.
NoneVal == -1
Sentinel == -1

Envs == 0 .. (NumEnvs - 1)
Agents == 0 .. (AgentsNum - 1)
Slots == 0 .. ((NumEnvs * AgentsNum) - 1)

VARIABLES
  variant,              \* "basic" | "collective": which collector class
  pc,                   \* position in collect: idle, step, lane, add, finish, break, raised
  error,                \* the exception that ended the last call ("" if none)
  warned,               \* the last call warned about its step target
  n_step, n_episode,    \* the arguments of the last collect call (None after it returned)
  ready_env_ids,        \* sequence of active env ids, one per lane
  data,                 \* self.data: one row per lane
  temp_data,            \* self.temp_data: dict buffer_id -> pending row
  done_agents_per_env,  \* self.done_agents_per_env: env -> list of buffer ids
  temp_buffer_data,     \* self.temp_buffer_data (collective variant)
  experience_to_save,   \* this tick's batch for buffer.add
  buffer_ids_to_save,   \* this tick's buffer ids for buffer.add
  done_envs,            \* this tick's (env_idx, env_id, index) triples
  env_idx,              \* 0-based index of the lane the loop is at
  step_count, episode_count,
  ep_len,               \* result of the last buffer.add of this call (<<>>: unbound)
  tick,                 \* number of ticks started so far
  buffer_add,           \* the (batch, buffer_ids) handed to buffer.add in this tick
  reset_call,           \* the (local ids, global ids) handed to _reset_env_with_ids in this tick
  buffer_index,         \* per buffer id: rows written so far (buffers[id]._index)
  episode_lens,         \* the add results appended to the statistics in this call
  add_calls,            \* number of buffer.add calls of this call
  acct                  \* history, per env: lane iterations, transitions flushed,
                        \* rows neither flushed nor stored, pending rows overwritten,
                        \* resets, and the last snapshot taken into ready

vars == <<variant, pc, error, warned, n_step, n_episode, ready_env_ids, data, temp_data,
          done_agents_per_env, temp_buffer_data, experience_to_save,
          buffer_ids_to_save, done_envs, env_idx, step_count, episode_count,
          ep_len, tick, buffer_add, reset_call, buffer_index, episode_lens,
          add_calls, acct>>

\* ----------------------------------------------------------------- helpers
Range(s) == {s[k] : k \in 1 .. Len(s)}

\* Mutant of Min: the first argument whatever the second.
MinFirst(a, b) == a

\* min(a, b)
Min(a, b) == IF a < b THEN a ELSE b

\* buffer_id = env_id * agents_num + agent_id
\* Variant of BufferId without the agents_num stride (lanes would share slots).
BufferIdNoStride(env_id, agent_id) == env_id + agent_id

\* Variant of BufferId with the stride on the agent (an environment's slots
\* are no longer contiguous).
BufferIdByAgent(env_id, agent_id) == (agent_id * NumEnvs) + env_id

BufferId(env_id, agent_id) == (env_id * AgentsNum) + agent_id

EnvOf(buffer_id) == buffer_id \div AgentsNum

\* The agent an environment's agent selector starts with after reset().
FirstAgent == 0

\* An observation: the agent whose turn it is, and the tick that produced it.
Obs(agent_id, t) == [agent_id |-> agent_id, t |-> t]

NoInfo(env_id) == [env_id |-> env_id, environment_step |-> FALSE, explicit_reset |-> FALSE]

\* A row of self.data right after a reset / between ticks: only obs is live,
\* every other key is rewritten by the next tick before it is read.
FreshRow(env_id, obs) ==
  [obs |-> obs, act |-> NoneVal, policy |-> NoneVal, obs_next |-> Obs(NoneVal, NoneVal),
   rew |-> NoneVal, terminated |-> FALSE, truncated |-> FALSE, done |-> FALSE,
   info |-> NoInfo(env_id)]

\* np.full(agents_num, -1)
EmptyArray == [a \in Agents |-> Sentinel]

\* arr[arr != -1]
NonEmpty(arr) == {arr[a] : a \in Agents} \ {Sentinel}

EmptyTempBufferData ==
  [ready |-> [e \in Envs |-> EmptyArray],
   filling |-> [e \in Envs |-> EmptyArray],
   exps_to_save |-> [e \in Envs |-> <<>>],
   buffer_ids_to_save |-> [e \in Envs |-> <<>>]]

\* Mutant of Pop: the completed row is left in the dict.
PopForgotten(dict, key) == dict

\* dict.pop(key)
Pop(dict, key) == [k \in (DOMAIN dict) \ {key} |-> dict[k]]

\* dict[key] = value
Put(dict, key, value) == [k \in (DOMAIN dict) \cup {key} |-> IF k = key THEN value ELSE dict[k]]

EmptyDict == [k \in {} |-> 0]

ZeroAcct == [ticks |-> 0, flushed |-> 0, dropped |-> 0, lost |-> 0, resets |-> 0,
             snapshot |-> {}]

\* -------------------------------------------------------------------- Init
\* The collector after __init__ (which calls reset()): every environment has
\* been reset and holds its first observation.
InitCommon ==
  /\ pc = "idle"
  /\ error = ""
  /\ warned = FALSE
  /\ n_step = NoneVal
  /\ n_episode = NoneVal
  /\ ready_env_ids = <<>>
  /\ data = [i \in 1 .. NumEnvs |-> FreshRow(i - 1, Obs(FirstAgent, 0))]
  /\ temp_data = EmptyDict
  /\ done_agents_per_env = [e \in Envs |-> <<>>]
  /\ temp_buffer_data = EmptyTempBufferData
  /\ experience_to_save = <<>>
  /\ buffer_ids_to_save = <<>>
  /\ done_envs = <<>>
  /\ env_idx = 0
  /\ step_count = 0
  /\ episode_count = 0
  /\ ep_len = <<>>
  /\ tick = 0
  /\ buffer_add = [batch |-> <<>>, buffer_ids |-> <<>>]
  /\ reset_call = [local |-> <<>>, global |-> <<>>]
  /\ buffer_index = [b \in Slots |-> 0]
  /\ episode_lens = <<>>
  /\ add_calls = 0
  /\ acct = [e \in Envs |-> ZeroAcct]

InitBasic == variant = "basic" /\ InitCommon

InitCollective == variant = "collective" /\ InitCommon

Init == variant \in {"basic", "collective"} /\ InitCommon

\* --------------------------------------------------------- collect: prologue
NStepArgs == {NoneVal} \cup (0 .. MaxTarget)

NEpisodeArgs == {NoneVal} \cup (0 .. MaxTarget)

\* Lane iterations done so far.
RECURSIVE SumTicks(_)
SumTicks(S) ==
  IF S = {} THEN 0
  ELSE LET e == CHOOSE x \in S : TRUE IN acct[e].ticks + SumTicks(S \ {e})

TotalLaneTicks == SumTicks(Envs)

\* np.arange(n) as a sequence of env ids
Arange(n) == [i \in 1 .. n |-> i - 1]

\* Mutant of ConfigError: a step target together with an episode target is
\* accepted.
ConfigErrorBothAllowed(ns, ne) ==
  IF ns # NoneVal
    THEN (IF ns <= 0 THEN "AssertionError" ELSE "")
    ELSE IF ne # NoneVal
      THEN (IF ne <= 0 THEN "AssertionError" ELSE "")
      ELSE "TypeError"

\* The argument checks of collect: "" when the call may start.
ConfigError(ns, ne) ==
  IF ns # NoneVal
    THEN (IF ne # NoneVal \/ ns <= 0 THEN "AssertionError" ELSE "")
    ELSE IF ne # NoneVal
      THEN (IF ne <= 0 THEN "AssertionError" ELSE "")
      ELSE "TypeError"

\* collect(n_step, n_episode) up to the loop: a configuration error raises
\* before anything is touched; otherwise the lanes are chosen and the
\* counters start at 0.
Collect ==
  /\ pc = "idle"
  /\ TotalLaneTicks < MaxLaneTicks
  /\ \E ns \in NStepArgs, ne \in NEpisodeArgs :
       IF ConfigError(ns, ne) # ""
         THEN /\ error' = ConfigError(ns, ne)
              /\ warned' = FALSE
              /\ n_step' = ns
              /\ n_episode' = ne
              /\ UNCHANGED <<pc, ready_env_ids, data,
                             step_count, episode_count, ep_len, episode_lens,
                             add_calls>>
         ELSE /\ error' = ""
              /\ warned' = (ns # NoneVal /\ ns % NumEnvs # 0)
              /\ pc' = "step"
              /\ n_step' = ns
              /\ n_episode' = ne
              /\ ready_env_ids' = IF ns # NoneVal THEN Arange(NumEnvs)
                                                  ELSE Arange(Min(NumEnvs, ne))
              /\ data' = IF ns # NoneVal THEN data
                                         ELSE SubSeq(data, 1, Min(NumEnvs, ne))
              /\ step_count' = 0
              /\ episode_count' = 0
              /\ ep_len' = <<>>
              /\ episode_lens' = <<>>
              /\ add_calls' = 0
  /\ UNCHANGED <<variant, temp_data, done_agents_per_env, temp_buffer_data,
                 experience_to_save, buffer_ids_to_save, done_envs, env_idx,
                 tick, buffer_add, reset_call, buffer_index, acct>>

\* ------------------------------------------------ collect: policy and env.step
\* What the environment answers for one lane.
\* The collectors read terminated and truncated only through their
\* disjunction done, so the environment's truncated is kept FALSE; the basic
\* collector never reads environment_step, so it is drawn only for the
\* collective one.
Outcomes ==
  [agent_id : Agents, terminated : BOOLEAN, truncated : {FALSE},
   environment_step : IF variant = "basic" THEN {FALSE} ELSE BOOLEAN,
   explicit_reset : BOOLEAN]


\* self.data.update(policy=, act=) then self.data.update(obs_next=, rew=, ...)
\* for one lane; done = terminated or truncated.
StepRow(row, env_id, t, out) ==
  [obs |-> row.obs, act |-> t, policy |-> t,
   obs_next |-> Obs(out.agent_id, t), rew |-> t,
   terminated |-> out.terminated, truncated |-> out.truncated,
   done |-> (out.terminated \/ out.truncated),
   info |-> [env_id |-> env_id, environment_step |-> out.environment_step,
             explicit_reset |-> out.explicit_reset]]

StepEnv ==
  /\ pc = "step"
  /\ TotalLaneTicks + Len(data) <= MaxLaneTicks
  /\ IF Len(data) # Len(ready_env_ids)
       THEN /\ pc' = "raised"
            /\ error' = "AssertionError"
            /\ UNCHANGED <<data, tick, experience_to_save, buffer_ids_to_save,
                           done_envs, env_idx, buffer_add, reset_call>>
       ELSE /\ \E out \in [1 .. Len(data) -> Outcomes] :
                 data' = [i \in 1 .. Len(data) |->
                            StepRow(data[i], ready_env_ids[i], tick + 1, out[i])]
            /\ tick' = tick + 1
            /\ experience_to_save' = <<>>
            /\ buffer_ids_to_save' = <<>>
            /\ done_envs' = <<>>
            /\ env_idx' = 0
            /\ buffer_add' = [batch |-> <<>>, buffer_ids |-> <<>>]
            /\ reset_call' = [local |-> <<>>, global |-> <<>>]
            /\ pc' = "lane"
            /\ error' = error
  /\ UNCHANGED <<variant, warned, n_step, n_episode, ready_env_ids, temp_data,
                 done_agents_per_env, temp_buffer_data, step_count,
                 episode_count, ep_len, buffer_index, episode_lens, add_calls,
                 acct>>

\* ------------------------------------------------- the per-lane reconciliation
\* Mutant of Complete: obs_next is not taken from the completing tick.
CompleteWithoutObsNext(pending, row) ==
  [pending EXCEPT !.rew = row.rew,
                  !.terminated = row.terminated, !.truncated = row.truncated,
                  !.done = row.done, !.info = row.info]

\* Mutant of Complete: the action and the policy output are taken from the
\* completing tick as well.
CompleteWithAct(pending, row) ==
  [pending EXCEPT !.rew = row.rew, !.obs_next = row.obs_next,
                  !.terminated = row.terminated, !.truncated = row.truncated,
                  !.done = row.done, !.info = row.info,
                  !.act = row.act, !.policy = row.policy]

\* The pending row completed with this tick's outcome.
Complete(pending, row) ==
  [pending EXCEPT !.rew = row.rew, !.obs_next = row.obs_next,
                  !.terminated = row.terminated, !.truncated = row.truncated,
                  !.done = row.done, !.info = row.info]

\* Mutant of SameAgent: no row is flushed directly.
SameAgentNever(buffer_id, next_buffer_id) == FALSE

\* Mutant of SameAgent: every row is flushed directly.
SameAgentAlways(buffer_id, next_buffer_id) == TRUE

\* obs and obs_next belong to the same buffer id
SameAgent(buffer_id, next_buffer_id) == buffer_id = next_buffer_id

\* Mutant of MarkDone: the next agent's slot is marked in every tick.
MarkDoneAlways(done_list, done, next_buffer_id) == Append(done_list, next_buffer_id)

\* if done[env_idx]: self.done_agents_per_env[env_id].append(next_buffer_id)
MarkDone(done_list, done, next_buffer_id) ==
  IF done THEN Append(done_list, next_buffer_id) ELSE done_list

\* The lane is appended to done_envs: done_list is the list after MarkDone.
\* Mutant of EnvDone: any done lane is a completion.
EnvDoneOnAnyDone(done, done_list, explicit_reset) == done

EnvDone(done, done_list, explicit_reset) ==
  done /\ (Len(done_list) = AgentsNum \/ explicit_reset)

\* Mutant of StoreGate: the row is stored even when the same agent is next.
StoreGateSameAgent(buffer_id, next_buffer_id, done_list) ==
  /\ ~(Len(done_list) = AgentsNum)
  /\ ~(buffer_id \in Range(done_list))

\* The current row is stored as pending: done_list is the list after MarkDone.
StoreGate(buffer_id, next_buffer_id, done_list) ==
  /\ buffer_id # next_buffer_id
  /\ ~(Len(done_list) = AgentsNum)
  /\ ~(buffer_id \in Range(done_list))

\* One iteration of the lane loop of MultiAgentCollector.collect.
LaneBasic ==
  /\ variant = "basic"
  /\ pc = "lane"
  /\ env_idx < Len(data)
  /\ LET row == data[env_idx + 1]
         env_id == row.info.env_id
         buffer_id == BufferId(env_id, row.obs.agent_id)
         next_buffer_id == BufferId(env_id, row.obs_next.agent_id)
         hit == next_buffer_id \in DOMAIN temp_data
         exp1 == IF hit THEN Append(experience_to_save,
                                    Complete(temp_data[next_buffer_id], row))
                        ELSE experience_to_save
         ids1 == IF hit THEN Append(buffer_ids_to_save, next_buffer_id)
                        ELSE buffer_ids_to_save
         tmp1 == IF hit THEN Pop(temp_data, next_buffer_id) ELSE temp_data
         same == SameAgent(buffer_id, next_buffer_id)
         exp2 == IF same THEN Append(exp1, row) ELSE exp1
         ids2 == IF same THEN Append(ids1, buffer_id) ELSE ids1
         done_list == MarkDone(done_agents_per_env[env_id], row.done, next_buffer_id)
         env_done == EnvDone(row.done, done_list, row.info.explicit_reset)
         store == StoreGate(buffer_id, next_buffer_id, done_list)
     IN /\ experience_to_save' = exp2
        /\ buffer_ids_to_save' = ids2
        /\ done_agents_per_env' = [done_agents_per_env EXCEPT ![env_id] = done_list]
        /\ done_envs' = IF env_done
                          THEN Append(done_envs, <<env_idx, env_id, Len(exp2) - 1>>)
                          ELSE done_envs
        /\ temp_data' = IF store THEN Put(tmp1, buffer_id, row) ELSE tmp1
        /\ acct' = [acct EXCEPT
                      ![env_id].ticks = @ + 1,
                      ![env_id].dropped = @ + (IF ~same /\ ~store THEN 1 ELSE 0),
                      ![env_id].lost = @ + (IF store /\ buffer_id \in DOMAIN tmp1
                                              THEN 1 ELSE 0)]
  /\ env_idx' = env_idx + 1
  /\ pc' = IF env_idx + 1 = Len(data) THEN "add" ELSE "lane"
  /\ UNCHANGED <<variant, warned, error, n_step, n_episode, ready_env_ids, data,
                 temp_buffer_data, step_count, episode_count, ep_len, tick,
                 buffer_add, reset_call, buffer_index, episode_lens, add_calls>>

\* ------------------------------------------------------------- buffer.add
\* What buffer.add returns (ptr, ep_rew, ep_len, ep_idx): one entry per
\* transition handed over, valid for this call of add.
BufferAddResult(ids, t) == [k \in 1 .. Len(ids) |-> [buffer_id |-> ids[k], t |-> t]]

\* Number of transitions of the batch that belong to environment e.
CountEnv(ids, e) == Cardinality({k \in 1 .. Len(ids) : EnvOf(ids[k]) = e})

\* The write index of every sub-buffer after the batch is added.
Written(ids) ==
  [b \in Slots |-> buffer_index[b] + Cardinality({k \in 1 .. Len(ids) : ids[k] = b})]

Flushed(ids) == [e \in Envs |-> [acct[e] EXCEPT !.flushed = @ + CountEnv(ids, e)]]

\* Mutant of StepsOfAdd: an add counts as one step.
StepsOfAddOne(ids) == 1

\* step_count += len(buffer_ids_to_save)
StepsOfAdd(ids) == Len(ids)

AddBasic ==
  /\ variant = "basic"
  /\ pc = "add"
  /\ IF Len(buffer_ids_to_save) > 0
       THEN /\ buffer_add' = [batch |-> experience_to_save,
                              buffer_ids |-> buffer_ids_to_save]
            /\ ep_len' = BufferAddResult(buffer_ids_to_save, tick)
            /\ step_count' = step_count + StepsOfAdd(buffer_ids_to_save)
            /\ buffer_index' = Written(buffer_ids_to_save)
            /\ add_calls' = add_calls + 1
            /\ acct' = Flushed(buffer_ids_to_save)
       ELSE UNCHANGED <<buffer_add, ep_len, step_count, buffer_index, add_calls,
                        acct>>
  /\ pc' = "finish"
  /\ UNCHANGED <<variant, warned, error, n_step, n_episode, ready_env_ids, data,
                 temp_data, done_agents_per_env, temp_buffer_data,
                 experience_to_save, buffer_ids_to_save, done_envs, env_idx,
                 episode_count, tick, reset_call, episode_lens>>

\* ------------------------------------------- completion, resets, target check
\* self._reset_env_with_ids(local_ids, global_ids): the environment is reset
\* and its first observation replaces obs_next of the lane.
ResetRows(rows, local, t) ==
  [i \in 1 .. Len(rows) |->
     IF (i - 1) \in Range(local)
       THEN [rows[i] EXCEPT !.obs_next = Obs(FirstAgent, t)]
       ELSE rows[i]]

\* seq[mask]: the lanes whose 0-based index is not in removed
Mask(seq, removed) ==
  LET kept == {i \in 1 .. Len(seq) : (i - 1) \notin removed}
      Nth[n \in 0 .. Len(seq)] ==
        IF n = 0 THEN 0
        ELSE CHOOSE i \in kept : i > Nth[n - 1] /\ \A j \in kept : j > Nth[n - 1] => i <= j
  IN [n \in 1 .. Cardinality(kept) |-> seq[Nth[n]]]

\* Mutant of Prefix: the last n entries are taken.
PrefixFromEnd(seq, n) == SubSeq(seq, (Len(seq) - Min(n, Len(seq))) + 1, Len(seq))

\* seq[:n]
Prefix(seq, n) == SubSeq(seq, 1, Min(n, Len(seq)))

\* self.data.obs = self.data.obs_next
NextObs(rows, ids) == [i \in 1 .. Len(rows) |-> FreshRow(ids[i], rows[i].obs_next)]

\* Mutant of TargetReached: the loop goes on until the target is exceeded.
TargetExceeded(ns, ne, steps, episodes) ==
  \/ (ns # NoneVal /\ ns # 0 /\ steps > ns)
  \/ (ne # NoneVal /\ ne # 0 /\ episodes > ne)

\* The loop's exit test.
TargetReached(ns, ne, steps, episodes) ==
  \/ (ns # NoneVal /\ ns # 0 /\ steps >= ns)
  \/ (ne # NoneVal /\ ne # 0 /\ episodes >= ne)

\* Mutant of Trimmed: no lane is ever removed.
TrimmedNever(env_ind_local, ne, n_ready, episodes) == {}

\* The lanes removed from the active set: env_ind_local[:surplus_env_num].
Trimmed(env_ind_local, ne, n_ready, episodes) ==
  LET surplus_env_num == n_ready - (ne - episodes)
  IN IF ne # NoneVal /\ ne # 0 /\ surplus_env_num > 0
       THEN Range(Prefix(env_ind_local, surplus_env_num))
       ELSE {}

\* self.done_agents_per_env[env_id] = [] for every finished environment
ClearDone(done_lists, env_ind_global) ==
  [e \in Envs |-> IF e \in Range(env_ind_global) THEN <<>> ELSE done_lists[e]]

\* arr[i] of numpy for i >= -len(arr): a negative index counts from the end
PyIndex(arr, i) == IF i < 0 THEN arr[Len(arr) + i + 1] ELSE arr[i + 1]

\* ep_len[env_ind_experience_to_save]: one add result per completion, taken
\* at the index recorded for it in done_envs
Take(results, triples) == [k \in 1 .. Len(triples) |-> PyIndex(results, triples[k][3])]

CountResets(S) == [e \in Envs |-> [acct[e] EXCEPT !.resets = @ + (IF e \in S THEN 1 ELSE 0)]]

FinishBasic ==
  /\ variant = "basic"
  /\ pc = "finish"
  /\ IF Len(done_envs) > 0 /\ ep_len = <<>>
       THEN \* ep_len[...] is read before any buffer.add of this call bound it
            /\ pc' = "raised"
            /\ error' = "UnboundLocalError"
            /\ UNCHANGED <<ready_env_ids, data, done_agents_per_env,
                           episode_count, reset_call, episode_lens, acct>>
       ELSE LET env_ind_local == [k \in 1 .. Len(done_envs) |-> done_envs[k][1]]
                env_ind_global == [k \in 1 .. Len(done_envs) |-> done_envs[k][2]]
                episodes == episode_count + Len(done_envs)
                removed == IF Len(done_envs) > 0
                             THEN Trimmed(env_ind_local, n_episode,
                                          Len(ready_env_ids), episodes)
                             ELSE {}
            IN /\ episode_count' = episodes
               /\ episode_lens' = episode_lens \o Take(ep_len, done_envs)
               /\ done_agents_per_env' = ClearDone(done_agents_per_env, env_ind_global)
               /\ acct' = CountResets(Range(env_ind_global))
               /\ reset_call' = [local |-> env_ind_local, global |-> env_ind_global]
               /\ ready_env_ids' = Mask(ready_env_ids, removed)
               /\ data' = NextObs(Mask(ResetRows(data, env_ind_local, tick), removed),
                               Mask(ready_env_ids, removed))
               /\ pc' = IF TargetReached(n_step, n_episode, step_count, episodes)
                          THEN "break" ELSE "step"
               /\ error' = error
  /\ UNCHANGED <<variant, warned, n_step, n_episode, temp_data, temp_buffer_data,
                 experience_to_save, buffer_ids_to_save, done_envs, env_idx,
                 step_count, ep_len, tick, buffer_add, buffer_index, add_calls>>

\* ------------------------------------------------ the collective variant
\* Mutant of MarkFilling: the acting slot is written even when it is done.
MarkFillingAlways(arr, agent_id, buffer_id, done_list) ==
  [arr EXCEPT ![agent_id] = buffer_id]

\* filling[env_id][agent_id] = buffer_id unless the agent is already done
MarkFilling(arr, agent_id, buffer_id, done_list) ==
  [arr EXCEPT ![agent_id] = IF buffer_id \notin Range(done_list)
                              THEN buffer_id ELSE Sentinel]

\* The step's info starts a new joint round and some slot is filling.
TurnBoundary(info, arr) ==
  (info.environment_step \/ info.explicit_reset) /\ NonEmpty(arr) # {}

\* Mutant of RoundComplete: a round is flushed as soon as all it holds is ready.
RoundCompletePartial(ready_arr, ids) ==
  /\ NonEmpty(ready_arr) # {}
  /\ Len(ids) > 0
  /\ Range(ids) \subseteq NonEmpty(ready_arr)

\* sorted(ready[ready != -1]) == sorted(buffer_ids_to_save[env_id]), non-empty
RoundComplete(ready_arr, ids) ==
  /\ NonEmpty(ready_arr) # {}
  /\ Len(ids) = Cardinality(NonEmpty(ready_arr))
  /\ Range(ids) = NonEmpty(ready_arr)

\* Mutant of AddExtraInfo: the indices are those after the write.
AddExtraInfoAfterWrite(exps, ready_arr) ==
  LET indices == [a \in Agents |-> IF ready_arr[a] # Sentinel
                                     THEN buffer_index[ready_arr[a]] + 1 ELSE Sentinel]
  IN [k \in 1 .. Len(exps) |->
        [exps[k] EXCEPT !.info = [env_id |-> @.env_id,
                                  environment_step |-> @.environment_step,
                                  explicit_reset |-> @.explicit_reset,
                                  indices |-> indices]]]

\* _add_extra_info: every row of the round gets info.indices, one entry per
\* agent: the write index of the ready slot's sub-buffer, -1 for an empty entry.
AddExtraInfo(exps, ready_arr) ==
  LET indices == [a \in Agents |-> IF ready_arr[a] # Sentinel
                                     THEN buffer_index[ready_arr[a]] ELSE Sentinel]
  IN [k \in 1 .. Len(exps) |->
        [exps[k] EXCEPT !.info = [env_id |-> @.env_id,
                                  environment_step |-> @.environment_step,
                                  explicit_reset |-> @.explicit_reset,
                                  indices |-> indices]]]

\* Mutant of StepsOfRound: a flushed round counts one step per transition.
StepsOfRoundLen(ids) == Len(ids)

\* step_count += 1 when the round of an environment is flushed
StepsOfRound(ids) == 1

\* One iteration of the lane loop of CollectiveExperienceCollector.collect.
LaneCollective ==
  /\ variant = "collective"
  /\ pc = "lane"
  /\ env_idx < Len(data)
  /\ LET row == data[env_idx + 1]
         env_id == row.info.env_id
         agent_id == row.obs.agent_id
         buffer_id == BufferId(env_id, agent_id)
         next_buffer_id == BufferId(env_id, row.obs_next.agent_id)
         tbd == temp_buffer_data
         fill1 == MarkFilling(tbd.filling[env_id], agent_id, buffer_id,
                              done_agents_per_env[env_id])
         boundary == TurnBoundary(row.info, fill1)
         ready1 == IF boundary THEN fill1 ELSE tbd.ready[env_id]
         fill2 == IF boundary THEN EmptyArray ELSE fill1
         hit == next_buffer_id \in DOMAIN temp_data
         exps1 == IF hit THEN Append(tbd.exps_to_save[env_id],
                                     Complete(temp_data[next_buffer_id], row))
                         ELSE tbd.exps_to_save[env_id]
         ids1 == IF hit THEN Append(tbd.buffer_ids_to_save[env_id], next_buffer_id)
                        ELSE tbd.buffer_ids_to_save[env_id]
         tmp1 == IF hit THEN Pop(temp_data, next_buffer_id) ELSE temp_data
         same == SameAgent(buffer_id, next_buffer_id)
         exps2 == IF same THEN Append(exps1, row) ELSE exps1
         ids2 == IF same THEN Append(ids1, buffer_id) ELSE ids1
         flush == RoundComplete(ready1, ids2)
         exp3 == IF flush THEN experience_to_save \o AddExtraInfo(exps2, ready1)
                          ELSE experience_to_save
         done_list == MarkDone(done_agents_per_env[env_id], row.done, next_buffer_id)
         env_done == EnvDone(row.done, done_list, row.info.explicit_reset)
         store == StoreGate(buffer_id, next_buffer_id, done_list)
         failed ==
           \/ tbd.filling[env_id][agent_id] # Sentinel
           \/ hit /\ next_buffer_id \in Range(tbd.buffer_ids_to_save[env_id])
           \/ same /\ buffer_id \in Range(ids1)
     IN IF failed
          THEN \* one of the three assertions of the loop body fails
               /\ pc' = "raised"
               /\ error' = "AssertionError"
               /\ UNCHANGED <<temp_data, done_agents_per_env, temp_buffer_data,
                              experience_to_save, buffer_ids_to_save, done_envs,
                              env_idx, step_count, acct>>
          ELSE /\ temp_buffer_data' =
                    [ready |-> [tbd.ready EXCEPT ![env_id] =
                                  IF flush THEN EmptyArray ELSE ready1],
                     filling |-> [tbd.filling EXCEPT ![env_id] = fill2],
                     exps_to_save |-> [tbd.exps_to_save EXCEPT ![env_id] =
                                         IF flush THEN <<>> ELSE exps2],
                     buffer_ids_to_save |-> [tbd.buffer_ids_to_save EXCEPT ![env_id] =
                                               IF flush THEN <<>> ELSE ids2]]
               /\ experience_to_save' = exp3
               /\ buffer_ids_to_save' = IF flush THEN buffer_ids_to_save \o ids2
                                                 ELSE buffer_ids_to_save
               /\ step_count' = IF flush THEN step_count + StepsOfRound(ids2)
                                        ELSE step_count
               /\ done_agents_per_env' =
                    [done_agents_per_env EXCEPT ![env_id] = done_list]
               /\ done_envs' = IF env_done
                                 THEN Append(done_envs,
                                             <<env_idx, env_id, Len(exp3) - 1>>)
                                 ELSE done_envs
               /\ temp_data' = IF store THEN Put(tmp1, buffer_id, row) ELSE tmp1
               /\ acct' = [acct EXCEPT
                             ![env_id].ticks = @ + 1,
                             ![env_id].dropped = @ + (IF ~same /\ ~store THEN 1 ELSE 0),
                             ![env_id].lost = @ + (IF store /\ buffer_id \in DOMAIN tmp1
                                                     THEN 1 ELSE 0),
                             ![env_id].snapshot = IF boundary THEN NonEmpty(fill1) ELSE @]
               /\ env_idx' = env_idx + 1
               /\ pc' = IF env_idx + 1 = Len(data) THEN "add" ELSE "lane"
               /\ error' = error
  /\ UNCHANGED <<variant, warned, n_step, n_episode, ready_env_ids, data,
                 episode_count, ep_len, tick, buffer_add, reset_call,
                 buffer_index, episode_lens, add_calls>>

AddCollective ==
  /\ variant = "collective"
  /\ pc = "add"
  /\ IF Len(buffer_ids_to_save) > 0
       THEN /\ buffer_add' = [batch |-> experience_to_save,
                              buffer_ids |-> buffer_ids_to_save]
            /\ ep_len' = BufferAddResult(buffer_ids_to_save, tick)
            /\ buffer_index' = Written(buffer_ids_to_save)
            /\ add_calls' = add_calls + 1
            /\ acct' = Flushed(buffer_ids_to_save)
       ELSE UNCHANGED <<buffer_add, ep_len, buffer_index, add_calls, acct>>
  /\ pc' = "finish"
  /\ UNCHANGED <<variant, warned, error, n_step, n_episode, ready_env_ids, data,
                 temp_data, done_agents_per_env, temp_buffer_data,
                 experience_to_save, buffer_ids_to_save, done_envs, env_idx,
                 step_count, episode_count, tick, reset_call, episode_lens>>

\* sorted(seq) for a sequence of distinct lane indices
Sorted(seq) ==
  LET S == Range(seq)
      Nth[n \in 0 .. Len(seq)] ==
        IF n = 0 THEN -1
        ELSE CHOOSE i \in S : i > Nth[n - 1] /\ \A j \in S : j > Nth[n - 1] => i <= j
  IN [n \in 1 .. Cardinality(S) |-> Nth[n]]

\* Mutant of ClearTurnState: filling is left as it is.
ClearTurnStateReadyOnly(tbd, env_ind_global) ==
  [tbd EXCEPT
     !.ready = [e \in Envs |-> IF e \in Range(env_ind_global) THEN EmptyArray ELSE @[e]]]

\* ready and filling of the finished environments are emptied.
ClearTurnState(tbd, env_ind_global) ==
  [tbd EXCEPT
     !.ready = [e \in Envs |-> IF e \in Range(env_ind_global) THEN EmptyArray ELSE @[e]],
     !.filling = [e \in Envs |-> IF e \in Range(env_ind_global) THEN EmptyArray ELSE @[e]]]

FinishCollective ==
  /\ variant = "collective"
  /\ pc = "finish"
  /\ IF Len(done_envs) > 0 /\ ep_len = <<>>
       THEN \* ep_len[...] is read before any buffer.add of this call bound it
            /\ pc' = "raised"
            /\ error' = "UnboundLocalError"
            /\ UNCHANGED <<ready_env_ids, data, done_agents_per_env,
                           temp_buffer_data, episode_count, reset_call,
                           episode_lens, acct>>
       ELSE LET env_ind_local ==
                  Sorted([k \in 1 .. Len(done_envs) |-> done_envs[k][1]])
                env_ind_global == [k \in 1 .. Len(done_envs) |-> done_envs[k][2]]
                episodes == episode_count + Len(done_envs)
                removed == IF Len(done_envs) > 0
                             THEN Trimmed(env_ind_local, n_episode,
                                          Len(ready_env_ids), episodes)
                             ELSE {}
            IN /\ episode_count' = episodes
               /\ episode_lens' = episode_lens \o Take(ep_len, done_envs)
               /\ done_agents_per_env' = ClearDone(done_agents_per_env, env_ind_global)
               /\ acct' = CountResets(Range(env_ind_global))
               /\ temp_buffer_data' = ClearTurnState(temp_buffer_data, env_ind_global)
               /\ reset_call' = [local |-> env_ind_local, global |-> env_ind_global]
               /\ ready_env_ids' = Mask(ready_env_ids, removed)
               /\ data' = NextObs(Mask(ResetRows(data, env_ind_local, tick), removed),
                               Mask(ready_env_ids, removed))
               /\ pc' = IF TargetReached(n_step, n_episode, step_count, episodes)
                          THEN "break" ELSE "step"
               /\ error' = error
  /\ UNCHANGED <<variant, warned, n_step, n_episode, temp_data, experience_to_save,
                 buffer_ids_to_save, done_envs, env_idx, step_count, ep_len,
                 tick, buffer_add, buffer_index, add_calls>>

\* After the loop: with an episode target self.data is rebuilt and every
\* environment is reset (reset_env); the call returns step_count and
\* episode_count, and its other locals are gone.
Return ==
  /\ pc = "break"
  /\ pc' = "idle"
  /\ ready_env_ids' = <<>>
  /\ n_step' = NoneVal
  /\ n_episode' = NoneVal
  /\ IF n_episode # NoneVal /\ n_episode # 0
       THEN /\ data' = [i \in 1 .. NumEnvs |-> FreshRow(i - 1, Obs(FirstAgent, tick))]
            /\ acct' = CountResets(Envs)
       ELSE UNCHANGED <<data, acct>>
  /\ experience_to_save' = <<>>
  /\ buffer_ids_to_save' = <<>>
  /\ done_envs' = <<>>
  /\ env_idx' = 0
  /\ ep_len' = <<>>
  /\ episode_lens' = <<>>
  /\ add_calls' = 0
  /\ warned' = FALSE
  /\ buffer_add' = [batch |-> <<>>, buffer_ids |-> <<>>]
  /\ reset_call' = [local |-> <<>>, global |-> <<>>]
  /\ UNCHANGED <<variant, error, temp_data, done_agents_per_env,
                 temp_buffer_data, step_count, episode_count, tick,
                 buffer_index>>

\* ------------------------------------------------------------ specifications
NextBasic == Collect \/ StepEnv \/ LaneBasic \/ AddBasic \/ FinishBasic \/ Return

SpecBasic == InitBasic /\ [][NextBasic]_vars

NextCollective ==
  Collect \/ StepEnv \/ LaneCollective \/ AddCollective \/ FinishCollective \/ Return

SpecCollective == InitCollective /\ [][NextCollective]_vars

Next ==
  \/ Collect \/ StepEnv \/ Return
  \/ LaneBasic \/ AddBasic \/ FinishBasic
  \/ LaneCollective \/ AddCollective \/ FinishCollective

Spec == Init /\ [][Next]_vars

\* ------------------------------------------ a run with a fixed turn order
\* collect(n_step) of the basic collector on environments whose agents take
\* turns in round-robin order and never ask for an explicit reset; the step
\* target is large enough for ScenarioTicks ticks.
CollectScenario ==
  /\ variant = "basic"
  /\ pc = "idle"
  /\ tick = 0
  /\ error' = ""
  /\ pc' = "step"
  /\ n_step' = NumEnvs * ScenarioTicks
  /\ warned' = ((NumEnvs * ScenarioTicks) % NumEnvs # 0)
  /\ n_episode' = NoneVal
  /\ ready_env_ids' = Arange(NumEnvs)
  /\ step_count' = 0
  /\ episode_count' = 0
  /\ ep_len' = <<>>
  /\ episode_lens' = <<>>
  /\ add_calls' = 0
  /\ UNCHANGED <<variant, data, temp_data, done_agents_per_env, temp_buffer_data,
                 experience_to_save, buffer_ids_to_save, done_envs, env_idx,
                 tick, buffer_add, reset_call, buffer_index, acct>>

\* What a round-robin environment answers to the agent that acted.
RoundRobinOutcomes(agent_id) ==
  [agent_id : {(agent_id + 1) % AgentsNum}, terminated : BOOLEAN, truncated : {FALSE},
   environment_step : {FALSE}, explicit_reset : {FALSE}]

StepScenario ==
  /\ pc = "step"
  /\ tick < ScenarioTicks
  /\ Len(data) = Len(ready_env_ids)
  /\ \E out \in [1 .. Len(data) -> UNION {RoundRobinOutcomes(a) : a \in Agents}] :
       /\ \A i \in 1 .. Len(data) : out[i] \in RoundRobinOutcomes(data[i].obs.agent_id)
       /\ data' = [i \in 1 .. Len(data) |->
                     StepRow(data[i], ready_env_ids[i], tick + 1, out[i])]
  /\ tick' = tick + 1
  /\ experience_to_save' = <<>>
  /\ buffer_ids_to_save' = <<>>
  /\ done_envs' = <<>>
  /\ env_idx' = 0
  /\ buffer_add' = [batch |-> <<>>, buffer_ids |-> <<>>]
  /\ reset_call' = [local |-> <<>>, global |-> <<>>]
  /\ pc' = "lane"
  /\ UNCHANGED <<variant, warned, error, n_step, n_episode, ready_env_ids, temp_data,
                 done_agents_per_env, temp_buffer_data, step_count,
                 episode_count, ep_len, buffer_index, episode_lens, add_calls,
                 acct>>

NextScenario ==
  CollectScenario \/ StepScenario \/ LaneBasic \/ AddBasic \/ FinishBasic

SpecScenario == InitBasic /\ [][NextScenario]_vars

\* ------------------------------- an episode run that cannot stay unfinished
\* collect(n_episode) of either collector on environments in which every step
\* ends the episode of the agent that is next (done is set in every tick), so
\* that every episode raises its completion event after at most agents_num
\* ticks; the turn order and the info flags are free.
CollectLive ==
  /\ pc = "idle"
  /\ tick = 0
  /\ \E ne \in 1 .. MaxTarget :
       /\ n_episode' = ne
       /\ ready_env_ids' = Arange(Min(NumEnvs, ne))
       /\ data' = SubSeq(data, 1, Min(NumEnvs, ne))
  /\ error' = ""
  /\ warned' = FALSE
  /\ pc' = "step"
  /\ n_step' = NoneVal
  /\ step_count' = 0
  /\ episode_count' = 0
  /\ ep_len' = <<>>
  /\ episode_lens' = <<>>
  /\ add_calls' = 0
  /\ UNCHANGED <<variant, temp_data, done_agents_per_env, temp_buffer_data,
                 experience_to_save, buffer_ids_to_save, done_envs, env_idx,
                 tick, buffer_add, reset_call, buffer_index, acct>>

\* What such an environment answers for one lane.
LiveOutcomes ==
  [agent_id : Agents, terminated : {TRUE}, truncated : {FALSE},
   environment_step : IF variant = "basic" THEN {FALSE} ELSE BOOLEAN,
   explicit_reset : BOOLEAN]

StepLive ==
  /\ pc = "step"
  /\ Len(data) = Len(ready_env_ids)
  /\ \E out \in [1 .. Len(data) -> LiveOutcomes] :
       data' = [i \in 1 .. Len(data) |->
                  StepRow(data[i], ready_env_ids[i], tick + 1, out[i])]
  /\ tick' = tick + 1
  /\ experience_to_save' = <<>>
  /\ buffer_ids_to_save' = <<>>
  /\ done_envs' = <<>>
  /\ env_idx' = 0
  /\ buffer_add' = [batch |-> <<>>, buffer_ids |-> <<>>]
  /\ reset_call' = [local |-> <<>>, global |-> <<>>]
  /\ pc' = "lane"
  /\ UNCHANGED <<variant, warned, error, n_step, n_episode, ready_env_ids, temp_data,
                 done_agents_per_env, temp_buffer_data, step_count,
                 episode_count, ep_len, buffer_index, episode_lens, add_calls,
                 acct>>

NextLive ==
  \/ CollectLive \/ StepLive \/ Return
  \/ LaneBasic \/ AddBasic \/ FinishBasic
  \/ LaneCollective \/ AddCollective \/ FinishCollective

\* collect is sequential code: whenever it has a next statement, it runs it.
SpecLive == Init /\ [][NextLive]_vars /\ WF_vars(NextLive)

\* ===================================================================== claims
\* Lanes of the current tick the loop has already processed (0-based).
ProcessedLanes ==
  IF pc \in {"lane", "add", "finish"} THEN 0 .. (env_idx - 1) ELSE {}

\* The lane was appended to done_envs in this tick.
Flagged(j) == \E k \in 1 .. Len(done_envs) : done_envs[k][1] = j

SlotsOfEnv(e) == {BufferId(e, a) : a \in Agents}

\* Pending rows held for environment e.
PendingOf(e) == Cardinality({b \in DOMAIN temp_data : EnvOf(b) = e})

\* Rows of e assembled in this tick and not yet handed to buffer.add.
InBatch(e) == IF pc \in {"lane", "add"} THEN CountEnv(buffer_ids_to_save, e) ELSE 0

\* ---------------------------------------------------------------------- C1
\* C1 (as stated): when the first episode of an environment ends (every one
\* of its agents marked done once, no explicit_reset, no reset of it before),
\* the number of its transitions flushed to the buffer equals the number of
\* its ticks.
C1_FlushedEqualsTicks ==
  \A k \in 1 .. Len(done_envs) :
    LET e == done_envs[k][2]
        row == data[done_envs[k][1] + 1]
    IN (/\ variant = "basic"
        /\ pc = "finish"
        /\ acct[e].resets = 0
        /\ ~row.info.explicit_reset
        /\ Range(done_agents_per_env[e]) = SlotsOfEnv(e))
         => acct[e].flushed = acct[e].ticks

\* C1 (amended): every tick of an environment yields exactly one row, and the
\* row is either flushed, waiting in this tick's batch, held pending, not kept
\* at all (next agent differs and the store gate is closed) or overwritten in
\* the pending store; so the flushed count never exceeds the tick count.
C1_TickAccounting ==
  variant = "basic" =>
    \A e \in Envs :
      /\ acct[e].ticks = acct[e].flushed + InBatch(e) + PendingOf(e)
                          + acct[e].dropped + acct[e].lost
      /\ acct[e].flushed <= acct[e].ticks

\* C1 witness: an environment is flagged complete after ticks of which some
\* were flushed and one was not kept.
C1_Witness ==
  /\ variant = "basic"
  /\ pc = "finish"
  /\ \E k \in 1 .. Len(done_envs) :
       LET e == done_envs[k][2] IN
         acct[e].resets = 0 /\ acct[e].flushed >= 1 /\ acct[e].dropped >= 1

\* ---------------------------------------------------------------------- C2
\* C2 (as stated): every transition handed to buffer.add carries the
\* observation returned by the tick in which its own action was applied.
C2_NextObsOfOwnTick ==
  \A k \in 1 .. Len(buffer_add.batch) :
    buffer_add.batch[k].obs_next.t = buffer_add.batch[k].act

\* C2 (amended): every transition handed to buffer.add by the basic collector
\* carries the observation, reward and flags returned by the tick in which it
\* is flushed, and that observation belongs to the transition's own agent: for
\* a same-agent row it is the tick of its action, for a row that was held
\* pending it is a later tick.
C2_NextObsOfFlushTick ==
  variant = "basic" =>
    \A k \in 1 .. Len(buffer_add.batch) :
      LET r == buffer_add.batch[k] IN
        /\ r.obs_next.t = tick
        /\ r.rew = tick
        /\ r.obs_next.agent_id = r.obs.agent_id
        /\ r.act <= r.obs_next.t
        /\ r.obs.t < r.act

\* C2 witness: a row that was held pending is flushed with a later tick's
\* observation.
C2_Witness ==
  /\ variant = "basic"
  /\ \E k \in 1 .. Len(buffer_add.batch) :
       buffer_add.batch[k].obs_next.t > buffer_add.batch[k].act

\* ---------------------------------------------------------------------- C3
\* C3: every transition handed to buffer.add under buffer id s has obs and
\* obs_next of the same agent, and s = env_id * agents_num + that agent.
C3_SameSlotPairing ==
  \A k \in 1 .. Len(buffer_add.batch) :
    LET r == buffer_add.batch[k]
        s == buffer_add.buffer_ids[k]
    IN /\ r.obs.agent_id = r.obs_next.agent_id
       /\ s = (r.info.env_id * AgentsNum) + r.obs.agent_id
       /\ s = (r.info.env_id * AgentsNum) + r.obs_next.agent_id

\* C3 witness: one add holds a completed pending row and a same-agent row,
\* in an environment other than the first.
C3_Witness ==
  \E k, m \in 1 .. Len(buffer_add.batch) :
    /\ buffer_add.batch[k].obs_next.t > buffer_add.batch[k].act
    /\ buffer_add.batch[m].obs_next.t = buffer_add.batch[m].act
    /\ buffer_add.batch[k].info.env_id > 0

\* ---------------------------------------------------------------------- C4
\* C4: a pending row is never stored under a buffer id that already holds
\* one (no pending row is overwritten).
C4_NoOverwrite == \A e \in Envs : acct[e].lost = 0

\* ---------------------------------------------------------------------- C5
\* C5: the buffer ids an environment contributes to a tick's batch are, as a
\* set and without repetition, the last snapshot taken into its ready array,
\* which is non-empty; and that flush left the ready array and the
\* accumulator of the environment empty.
C5_JointRoundAtomic ==
  variant = "collective" =>
    \A e \in Envs :
      LET contrib == {k \in 1 .. Len(buffer_ids_to_save) :
                        EnvOf(buffer_ids_to_save[k]) = e}
      IN contrib # {} =>
           /\ {buffer_ids_to_save[k] : k \in contrib} = acct[e].snapshot
           /\ Cardinality(contrib) = Cardinality(acct[e].snapshot)
           /\ acct[e].snapshot # {}
           /\ temp_buffer_data.ready[e] = EmptyArray
           /\ temp_buffer_data.exps_to_save[e] = <<>>
           /\ temp_buffer_data.buffer_ids_to_save[e] = <<>>

\* C5 witness: a joint round of two slots is handed to buffer.add.
C5_Witness ==
  /\ variant = "collective"
  /\ \E e \in Envs :
       /\ Cardinality(acct[e].snapshot) = 2
       /\ CountEnv(buffer_add.buffer_ids, e) = 2

\* ---------------------------------------------------------------------- C6
\* C6: a processed lane is flagged complete exactly when the done-count of
\* its environment equals agents_num or explicit_reset is set in its info.
C6_FlaggedIffFullOrExplicit ==
  \A j \in ProcessedLanes :
    LET row == data[j + 1] IN
      Flagged(j) <=> (\/ Len(done_agents_per_env[row.info.env_id]) = AgentsNum
                      \/ row.info.explicit_reset)

\* ---------------------------------------------------------------------- C7
\* C7: at the end of a tick, every environment flagged complete in it has an
\* empty done list and, in the collective variant, all-empty ready and
\* filling arrays.
C7_EmptyAfterCompletion ==
  pc \in {"step", "break"} =>
    \A k \in 1 .. Len(done_envs) :
      LET e == done_envs[k][2] IN
        /\ done_agents_per_env[e] = <<>>
        /\ temp_buffer_data.ready[e] = EmptyArray
        /\ temp_buffer_data.filling[e] = EmptyArray

\* C7 witness: the tick of a collective collector ends after a completion in
\* which a joint round had been snapshotted.
C7_Witness ==
  /\ variant = "collective"
  /\ pc \in {"step", "break"}
  /\ \E k \in 1 .. Len(done_envs) : acct[done_envs[k][2]].snapshot # {}

\* ---------------------------------------------------------------------- C8
\* C8: when the tick's completion handling is over (or has raised on reading
\* the add results), every lane flagged complete in the tick was flagged
\* once and its environment is in the tick's reset request exactly once, and
\* nothing else is.
C8_ResetExactlyOnce ==
  (pc \in {"step", "break"} \/ (pc = "raised" /\ error = "UnboundLocalError")) =>
    /\ \A k \in 1 .. Len(done_envs) :
         /\ Cardinality({m \in 1 .. Len(reset_call.global) :
                           reset_call.global[m] = done_envs[k][2]}) = 1
         /\ Cardinality({m \in 1 .. Len(done_envs) :
                           done_envs[m][1] = done_envs[k][1]}) = 1
    /\ \A m \in 1 .. Len(reset_call.global) :
         \E k \in 1 .. Len(done_envs) : done_envs[k][2] = reset_call.global[m]

\* ---------------------------------------------------------------------- C9
\* C9: a done list never holds a buffer id twice, and a lane flagged complete
\* by count without explicit_reset has every slot of its environment in it.
C9_CountMeansAllDone ==
  /\ \A e \in Envs :
       Cardinality(Range(done_agents_per_env[e])) = Len(done_agents_per_env[e])
  /\ \A j \in ProcessedLanes :
       LET row == data[j + 1] IN
         (Flagged(j) /\ ~row.info.explicit_reset)
           => Range(done_agents_per_env[row.info.env_id]) = SlotsOfEnv(row.info.env_id)

\* --------------------------------------------------------------------- C10
\* C10: in the basic collector, the row of a processed lane whose acting slot
\* equals its next slot is in the tick's batch (and then in the tick's
\* buffer.add) under that slot, and no pending row is held for the slot.
C10_SameAgentFlushed ==
  variant = "basic" =>
    \A j \in ProcessedLanes :
      LET row == data[j + 1]
          b == (row.info.env_id * AgentsNum) + row.obs.agent_id
      IN row.obs.agent_id = row.obs_next.agent_id =>
           /\ \E k \in 1 .. Len(experience_to_save) :
                experience_to_save[k] = row /\ buffer_ids_to_save[k] = b
           /\ pc = "finish" =>
                \E k \in 1 .. Len(buffer_add.batch) :
                  buffer_add.batch[k] = row /\ buffer_add.buffer_ids[k] = b
           /\ b \notin DOMAIN temp_data

\* C10 witness: a same-agent row has been handed to buffer.add in a tick in
\* which another lane stored a pending row.
C10_Witness ==
  /\ variant = "basic"
  /\ pc = "finish"
  /\ \E j \in ProcessedLanes :
       data[j + 1].obs.agent_id = data[j + 1].obs_next.agent_id
  /\ \E b \in DOMAIN temp_data : temp_data[b].act = tick

\* --------------------------------------------------------------------- C11
\* C11: in the basic collector a record held pending under a slot stays in
\* the store, as it was stored, through every lane iteration whose next slot
\* is another one, and in the iteration whose next slot is its own it leaves
\* the store and enters the tick's batch under that slot, keeping its obs and
\* act and taking rew, obs_next and the termination flags of that tick;
\* outside the lane loop the store does not change.
C11_PendingFlushedAtFirstTurn ==
  [][variant = "basic" =>
       IF pc = "lane" /\ pc' # "raised"
         THEN LET row == data[env_idx + 1]
                  s == (row.info.env_id * AgentsNum) + row.obs_next.agent_id
              IN /\ \A b \in (DOMAIN temp_data) \ {s} :
                      b \in DOMAIN temp_data' /\ temp_data'[b] = temp_data[b]
                 /\ s \in DOMAIN temp_data =>
                      /\ s \notin DOMAIN temp_data'
                      /\ \E k \in (Len(experience_to_save) + 1) .. Len(experience_to_save') :
                           /\ buffer_ids_to_save'[k] = s
                           /\ experience_to_save'[k].obs = temp_data[s].obs
                           /\ experience_to_save'[k].act = temp_data[s].act
                           /\ experience_to_save'[k].obs_next = row.obs_next
                           /\ experience_to_save'[k].rew = row.rew
                           /\ experience_to_save'[k].terminated = row.terminated
                           /\ experience_to_save'[k].truncated = row.truncated
                           /\ experience_to_save'[k].done = row.done
         ELSE temp_data' = temp_data]_vars

\* --------------------------------------------------------------------- C12
\* The add of the last tick of the round-robin run is over, and in every
\* environment the only done flag so far is the one of this tick.
DoneOnlyOnLastTick ==
  /\ variant = "basic"
  /\ pc = "finish"
  /\ tick = ScenarioTicks
  /\ Len(data) = NumEnvs
  /\ \A i \in 1 .. Len(data) :
       /\ data[i].done
       /\ acct[data[i].info.env_id].resets = 0
       /\ Len(done_agents_per_env[data[i].info.env_id]) = 1

\* C12 (as stated): in the round-robin run with done only on the last tick,
\* the last tick raises exactly one completion event per environment and
\* buffer.add has been called once per environment.
C12_OneEventPerEnvTwoAdds ==
  DoneOnlyOnLastTick =>
    /\ \A e \in Envs : Cardinality({k \in 1 .. Len(done_envs) : done_envs[k][2] = e}) = 1
    /\ add_calls = NumEnvs

\* C12 (amended): in the round-robin run with done only on the last tick, the
\* last tick raises no completion event (each done list holds one slot);
\* buffer.add has been called once in every tick from the first in which an
\* agent was next again, each time with one transition per environment; the
\* last add carries for every environment one transition with done set; and
\* every environment keeps one pending record per other agent.
C12_NoEventOneAddPerTick ==
  DoneOnlyOnLastTick =>
    /\ done_envs = <<>>
    /\ episode_lens = <<>>
    /\ add_calls = ScenarioTicks - (AgentsNum - 1)
    /\ Len(buffer_add.buffer_ids) = NumEnvs
    /\ \A e \in Envs :
         /\ acct[e].flushed = ScenarioTicks - (AgentsNum - 1)
         /\ PendingOf(e) = AgentsNum - 1
         /\ \E k \in 1 .. Len(buffer_add.batch) :
              /\ EnvOf(buffer_add.buffer_ids[k]) = e
              /\ buffer_add.batch[k].done
         /\ CountEnv(buffer_add.buffer_ids, e) = 1

\* C12 witness: the round-robin run reaches the end of its last tick with
\* done only on that tick.
C12_Witness == DoneOnlyOnLastTick /\ add_calls > 1

\* --------------------------------------------------------------------- C13
\* C13: a processed lane whose record was stored as pending in this tick has
\* an acting slot different from its next slot, its environment is not fully
\* done in this tick (the done count is below agents_num and explicit_reset
\* is not set), the acting slot is not in the done list, and the lane is not
\* flagged complete.
C13_StoreOnlyIfNotFullyDone ==
  \A j \in ProcessedLanes :
    LET row == data[j + 1]
        e == row.info.env_id
        b == (e * AgentsNum) + row.obs.agent_id
        bn == (e * AgentsNum) + row.obs_next.agent_id
    IN (b \in DOMAIN temp_data /\ temp_data[b] = row) =>
         /\ b # bn
         /\ Len(done_agents_per_env[e]) # AgentsNum
         /\ ~row.info.explicit_reset
         /\ b \notin Range(done_agents_per_env[e])
         /\ ~Flagged(j)

\* --------------------------------------------------------------------- C14
\* What one lane iteration does to a slot x of the lane's environment, given
\* that the iteration has not raised: the filling entry of x is empty after
\* it, a snapshot taken in it does not hold x, and the pending store holds no
\* record under x that it did not hold before.
KeptOut(x) ==
  LET row == data[env_idx + 1]
      e == row.info.env_id
      a == x % AgentsNum
      fill1 == MarkFilling(temp_buffer_data.filling[e], row.obs.agent_id,
                           (e * AgentsNum) + row.obs.agent_id, done_agents_per_env[e])
  IN /\ variant = "collective" =>
          /\ temp_buffer_data'.filling[e][a] = Sentinel
          /\ TurnBoundary(row.info, fill1) => x \notin acct'[e].snapshot
     /\ x \in DOMAIN temp_data' => (x \in DOMAIN temp_data /\ temp_data'[x] = temp_data[x])

Assembled(x) ==
  Cardinality({k \in 1 .. Len(buffer_ids_to_save) : buffer_ids_to_save[k] = x})
  + Cardinality({k \in 1 .. Len(temp_buffer_data.buffer_ids_to_save[EnvOf(x)]) :
                   temp_buffer_data.buffer_ids_to_save[EnvOf(x)][k] = x})

\* C15: a lane iteration that starts with slot x in the done list of its
\* environment assembles no transition tagged with x (neither for the tick's
\* batch nor for the accumulator).
C15_NoWriteForFinishedSlot ==
  [][(pc = "lane" /\ pc' # "raised") =>
       \A x \in Range(done_agents_per_env[data[env_idx + 1].info.env_id]) :
         Assembled(x)' = Assembled(x)]_vars

\* --------------------------------------------------------------------- C16
\* The lanes (0-based) that completed in this tick.
CompletedLanes == {done_envs[k][1] : k \in 1 .. Len(done_envs)}

\* The n lowest lanes of S.
Lowest(S, n) == {c \in S : Cardinality({d \in S : d < c}) < n}

\* C16: when completion handling of a tick of an n_episode run is carried
\* out, the lanes that leave the active set are the surplus_env_num lowest
\* lanes among those completed in the tick (none if the surplus is not
\* positive), the other lanes keep their order, and self.data keeps one row
\* per remaining lane.
C16_TrimLowestCompleted ==
  [][(pc = "finish" /\ pc' # "raised" /\ n_episode # NoneVal /\ Len(done_envs) > 0) =>
       LET surplus == Len(ready_env_ids) - (n_episode - episode_count')
           gone == IF surplus > 0 THEN Lowest(CompletedLanes, surplus) ELSE {}
           shift(i) == Cardinality({r \in gone : r < i})
       IN /\ gone \subseteq CompletedLanes
          /\ surplus > 0 => Cardinality(gone) = surplus
          /\ Len(ready_env_ids') = Len(ready_env_ids) - Cardinality(gone)
          /\ Len(data') = Len(ready_env_ids')
          /\ \A i \in 0 .. (Len(ready_env_ids) - 1) :
               i \notin gone =>
                 /\ ready_env_ids'[(i - shift(i)) + 1] = ready_env_ids[i + 1]
                 /\ data'[(i - shift(i)) + 1].info.env_id = ready_env_ids[i + 1]]_vars

\* C16 witness: two lanes completed in one tick of an n_episode run, the
\* surplus was 1 and only the lower lane was removed.
C16_Witness ==
  /\ pc \in {"step", "break"}
  /\ n_episode # NoneVal
  /\ Len(done_envs) = 2
  /\ Len(reset_call.local) = 2
  /\ ready_env_ids = <<1>>

\* --------------------------------------------------------------------- C17
\* C17: a call of collect with both targets, with neither, or with a target
\* that is not positive ends with an error and leaves the position in the
\* loop, the tick count, self.data, the pending store, the done lists, the
\* turn state, the buffer and the counters as they were; any other call
\* starts the loop without an error, and warns exactly when its step target
\* is not a multiple of the number of environments.
C17_ConfigErrorsFailFirst ==
  [][pc = "idle" =>
       LET ns == n_step'
           ne == n_episode'
           bad == \/ (ns # NoneVal /\ ne # NoneVal)
                  \/ (ns = NoneVal /\ ne = NoneVal)
                  \/ (ns # NoneVal /\ ns <= 0)
                  \/ (ne # NoneVal /\ ne <= 0)
       IN IF bad
            THEN /\ error' \in {"AssertionError", "TypeError"}
                 /\ ~warned'
                 /\ UNCHANGED <<pc, tick, ready_env_ids, data, temp_data,
                                done_agents_per_env, temp_buffer_data,
                                experience_to_save, buffer_ids_to_save,
                                done_envs, step_count, episode_count, ep_len,
                                episode_lens, buffer_add, reset_call,
                                buffer_index, add_calls, acct>>
            ELSE /\ error' = ""
                 /\ pc' = "step"
                 /\ tick' = tick
                 /\ warned' <=> (ns # NoneVal /\ ns % NumEnvs # 0)]_vars

\* C17 witness: a call with both targets has failed on a collector that
\* holds a pending record from an earlier call.
C17_Witness ==
  /\ pc = "idle"
  /\ error = "AssertionError"
  /\ n_step # NoneVal /\ n_step > 0
  /\ n_episode # NoneVal /\ n_episode > 0
  /\ tick > 0
  /\ DOMAIN temp_data # {}

\* --------------------------------------------------------------------- C18
\* C18 (as stated): when the add of a tick is over, the record of every lane
\* whose acting slot is its next slot is in what was handed to buffer.add in
\* this tick, under that slot.
C18_AllAssembledInAdd ==
  pc = "finish" =>
    \A j \in ProcessedLanes :
      LET row == data[j + 1]
          b == (row.info.env_id * AgentsNum) + row.obs.agent_id
      IN row.obs.agent_id = row.obs_next.agent_id =>
           \E k \in 1 .. Len(buffer_add.batch) :
             /\ buffer_add.buffer_ids[k] = b
             /\ buffer_add.batch[k].obs = row.obs
             /\ buffer_add.batch[k].act = row.act

\* Records a lane iteration assembles: the completed pending record of the
\* next slot, and the lane's own record when the same agent is next.
AssembledByLane ==
  LET row == data[env_idx + 1]
      e == row.info.env_id
  IN (IF ((e * AgentsNum) + row.obs_next.agent_id) \in DOMAIN temp_data THEN 1 ELSE 0)
     + (IF row.obs.agent_id = row.obs_next.agent_id THEN 1 ELSE 0)

\* C18 (amended): buffer.add is called only when the lane loop of the tick is
\* over, at most once per tick, with the tick's batch and one buffer id per
\* transition, and not at all when the batch is empty. Every record a lane
\* iteration assembles is appended to the batch (basic collector) or to the
\* accumulator of its environment (collective collector), nothing of the
\* batch is taken back, and the collective batch grows only by a whole
\* accumulator, which is emptied.
C18_SingleBatchedAdd ==
  [][/\ (add_calls' # add_calls /\ pc \notin {"idle", "break"}) =>
          /\ pc = "add"
          /\ env_idx = Len(data)
          /\ add_calls' = add_calls + 1
          /\ Len(buffer_ids_to_save) > 0
          /\ Len(experience_to_save) = Len(buffer_ids_to_save)
          /\ buffer_add' = [batch |-> experience_to_save,
                            buffer_ids |-> buffer_ids_to_save]
     /\ pc = "add" =>
          /\ pc' = "finish"
          /\ Len(buffer_ids_to_save) > 0 => add_calls' = add_calls + 1
          /\ Len(buffer_ids_to_save) = 0 =>
               (add_calls' = add_calls /\ buffer_add' = buffer_add)
     /\ pc' = "add" => (pc = "lane" /\ tick' = tick)
     /\ tick' # tick => pc = "step"
     /\ (pc = "lane" /\ pc' # "raised") =>
          LET e == data[env_idx + 1].info.env_id
              acc == temp_buffer_data.exps_to_save[e]
              acc2 == temp_buffer_data'.exps_to_save[e]
          IN /\ Len(experience_to_save') + Len(acc2)
                  = Len(experience_to_save) + Len(acc) + AssembledByLane
             /\ Len(experience_to_save') >= Len(experience_to_save)
             /\ SubSeq(experience_to_save', 1, Len(experience_to_save)) = experience_to_save
             /\ Len(buffer_ids_to_save') = Len(experience_to_save')
             /\ variant = "basic" => acc2 = <<>>
             /\ Len(experience_to_save') # Len(experience_to_save) => acc2 = <<>>]_vars

\* C18 witness: the second add of a call has been made with transitions of
\* two lanes.
C18_Witness ==
  /\ pc = "finish"
  /\ add_calls >= 2
  /\ \E k, m \in 1 .. Len(buffer_add.buffer_ids) :
       EnvOf(buffer_add.buffer_ids[k]) # EnvOf(buffer_add.buffer_ids[m])

\* --------------------------------------------------------------------- C19
\* C19: when the add of a tick is over, the index recorded for every lane
\* flagged complete lies within the results of an add made in this tick; and
\* when completion handling is over, the result appended to the statistics
\* for each flagged lane comes from this tick's add and belongs to a
\* transition of the lane's own environment.
C19_StatsOfOwnEnv ==
  /\ pc = "finish" =>
       \A k \in 1 .. Len(done_envs) :
         /\ buffer_add.buffer_ids # <<>>
         /\ done_envs[k][3] >= 0
         /\ done_envs[k][3] < Len(ep_len)
  /\ (pc \in {"step", "break"} /\ Len(done_envs) > 0) =>
       /\ Len(episode_lens) >= Len(done_envs)
       /\ \A k \in 1 .. Len(done_envs) :
            LET r == episode_lens[(Len(episode_lens) - Len(done_envs)) + k]
            IN r.t = tick /\ EnvOf(r.buffer_id) = done_envs[k][2]

\* --------------------------------------------------------------------- C20
\* C20: the slot id env_id * agents_num + agent_id is different for different
\* (environment, agent) pairs and lies in 0 .. env_num * agents_num - 1, the
\* sub-buffers the collector requires; so every pending row is held under the
\* slot of its own environment and agent, and every slot handed to the buffer
\* exists.
C20_SlotUniqueness ==
  /\ \A e1 \in Envs, e2 \in Envs, a1 \in Agents, a2 \in Agents :
       (BufferId(e1, a1) = BufferId(e2, a2)) => (e1 = e2 /\ a1 = a2)
  /\ \A e \in Envs, a \in Agents : BufferId(e, a) \in Slots
  /\ Cardinality({BufferId(e, a) : e \in Envs, a \in Agents}) = NumEnvs * AgentsNum
  /\ \A b \in DOMAIN temp_data :
       /\ b \in Slots
       /\ b = BufferId(temp_data[b].info.env_id, temp_data[b].obs.agent_id)
  /\ \A i \in 1 .. Len(buffer_ids_to_save) : buffer_ids_to_save[i] \in Slots

\* Two environments each hold a pending row of the agent with the same index,
\* under two different slots.
C20_Witness ==
  \E b1 \in DOMAIN temp_data, b2 \in DOMAIN temp_data :
    /\ temp_data[b1].info.env_id # temp_data[b2].info.env_id
    /\ temp_data[b1].obs.agent_id = temp_data[b2].obs.agent_id
    /\ b1 # b2

\* --------------------------------------------------------------------- C21
\* The counter of the running call has reached the call's target.
TargetMet(steps, episodes) ==
  \/ (n_step # NoneVal /\ steps >= n_step)
  \/ (n_episode # NoneVal /\ episodes >= n_episode)

\* C21: the loop is left only by the completion-handling step that ends a
\* tick, and that step leaves it exactly when the target is met by the
\* counters it ends with; a tick is started only while the target is not met;
\* once the loop is left, the only step is the return, which starts no tick.
C21_ExitAtFirstTargetTick ==
  [][ /\ (pc' = "break" /\ pc # "break") => pc = "finish"
      /\ (pc = "finish" /\ pc' \in {"step", "break"}) =>
           ((pc' = "break") <=> TargetMet(step_count', episode_count'))
      /\ (tick' # tick) => (pc = "step" /\ ~TargetMet(step_count, episode_count))
      /\ (pc = "break") => (pc' = "idle" /\ tick' = tick)
    ]_vars

\* A step run is left on its second tick or later with exactly its target.
C21_Witness ==
  /\ pc = "break"
  /\ n_step = 2
  /\ step_count = 2
  /\ add_calls = 2

\* --------------------------------------------------------------------- C22
\* C22 (episode run): when every episode raises its completion event, a
\* started collect call eventually returns.
C22_CollectReturns == (pc = "step") ~> (pc = "idle")

\* --------------------------------------------------------------------- C23
\* C23: in every step, the done list of every environment either stays as it
\* is, or is extended by exactly the next agent's slot in a lane iteration of
\* that environment whose done flag is set, or is emptied by the
\* completion-handling step of a tick in which that environment was flagged
\* complete.
C23_DoneListLifecycle ==
  [][ \A e \in Envs :
        LET old == done_agents_per_env[e]
            new == done_agents_per_env'[e]
        IN \/ new = old
           \/ /\ pc = "lane"
              /\ data[env_idx + 1].info.env_id = e
              /\ data[env_idx + 1].done
              /\ new = Append(old, BufferId(e, data[env_idx + 1].obs_next.agent_id))
           \/ /\ pc = "finish"
              /\ \E k \in 1 .. Len(done_envs) : done_envs[k][2] = e
              /\ new = <<>>
    ]_vars

\* Completion handling has just emptied the list of a flagged environment
\* and kept the one-entry list of an environment that was not flagged.
C23_Witness ==
  /\ pc \in {"step", "break"}
  /\ \E e1 \in Envs, e2 \in Envs :
       /\ e1 \in Range(reset_call.global)
       /\ done_agents_per_env[e1] = <<>>
       /\ e2 \notin Range(reset_call.global)
       /\ Len(done_agents_per_env[e2]) = 1

\* --------------------------------------------------------------------- C24
\* The row of its sub-buffer into which the j-th transition of this tick's
\* add was written (read after the add).
WriteRow(j) ==
  LET ids == buffer_add.buffer_ids
  IN buffer_index[ids[j]] - Cardinality({i \in j .. Len(ids) : ids[i] = ids[j]})

\* C24: after the add of a tick of the collective collector, every
\* transition of the batch carries one index per agent of its environment:
\* for an agent whose slot is in the batch, the row that slot's transition
\* was written to by this add; for every other agent, -1.
C24_IndicesAreWriteRows ==
  (variant = "collective" /\ pc = "finish") =>
    \A k \in 1 .. Len(buffer_add.batch) :
      LET ids == buffer_add.buffer_ids
          row == buffer_add.batch[k]
          e == EnvOf(ids[k])
      IN /\ DOMAIN row.info.indices = Agents
         /\ \A a \in Agents :
              LET J == {j \in 1 .. Len(ids) : ids[j] = BufferId(e, a)}
              IN IF J = {} THEN row.info.indices[a] = Sentinel
                 ELSE \A j \in J : row.info.indices[a] = WriteRow(j)

\* A round of one slot was written to a row other than the first one.
C24_Witness ==
  /\ variant = "collective"
  /\ pc = "finish"
  /\ \E k \in 1 .. Len(buffer_add.batch) :
       \E a \in Agents, b \in Agents :
         /\ buffer_add.batch[k].info.indices[a] >= 1
         /\ buffer_add.batch[k].info.indices[b] = Sentinel

\* --------------------------------------------------------------------- C25
\* C25: a lane iteration of the collective collector that does not raise
\* takes a new snapshot into ready only when the environment's ready array
\* is empty, and a completion-handling step that does not raise clears only
\* ready arrays that are empty already.
C25_ReadyNeverDiscarded ==
  [][ /\ (variant = "collective" /\ pc = "lane" /\ pc' # "raised") =>
           LET row == data[env_idx + 1]
               e == row.info.env_id
               fill1 == MarkFilling(temp_buffer_data.filling[e], row.obs.agent_id,
                                    BufferId(e, row.obs.agent_id),
                                    done_agents_per_env[e])
           IN TurnBoundary(row.info, fill1) => NonEmpty(temp_buffer_data.ready[e]) = {}
      /\ (variant = "collective" /\ pc = "finish" /\ pc' # "raised") =>
           \A k \in 1 .. Len(done_envs) :
             NonEmpty(temp_buffer_data.ready[done_envs[k][2]]) = {}
    ]_vars

\* --------------------------------------------------------------------- C26
\* C26: whenever the collective collector is about to process a lane, the
\* filling entry of the lane's acting agent is empty.
C26_FillingEntryEmpty ==
  (variant = "collective" /\ pc = "lane" /\ env_idx < Len(data)) =>
    LET row == data[env_idx + 1]
    IN temp_buffer_data.filling[row.info.env_id][row.obs.agent_id] = Sentinel

\* --------------------------------------------------------------------- C27
\* C27: whenever the collective collector is about to process a lane whose
\* filling entry is empty, the slot of a pending record completed by this
\* tick is not in the environment's accumulated ids, and the slot of a record
\* that is followed by the same agent is neither in them nor added to them by
\* the completion of a pending record in the same iteration.
C27_NoDuplicateSlotInRound ==
  (variant = "collective" /\ pc = "lane" /\ env_idx < Len(data)) =>
    LET row == data[env_idx + 1]
        e == row.info.env_id
        b == BufferId(e, row.obs.agent_id)
        nb == BufferId(e, row.obs_next.agent_id)
        ids == temp_buffer_data.buffer_ids_to_save[e]
    IN (temp_buffer_data.filling[e][row.obs.agent_id] = Sentinel) =>
         /\ (nb \in DOMAIN temp_data) => (nb \notin Range(ids))
         /\ (b = nb) => (b \notin Range(ids) /\ b \notin DOMAIN temp_data)

\* --------------------------------------------------------------------- C28
\* C28: while a call with an episode target runs, the episodes it has counted
\* never exceed the target, and when its loop is left they equal the target.
C28_ExactEpisodeCount ==
  (n_episode # NoneVal /\ pc # "idle") =>
    /\ episode_count <= n_episode
    /\ (pc = "break") => (episode_count = n_episode)

\* A run for three episodes on two environments is left by a tick in which
\* both environments completed.
C28_Witness ==
  /\ pc = "break"
  /\ n_episode = 3
  /\ episode_count = 3
  /\ Len(done_envs) = 2

\* --------------------------------------------------------------------- C29
\* C29: in a call with an episode target, every tick starts with at most as
\* many active lanes as episodes are still needed; when completion handling
\* starts, the surplus of lanes over the episodes still needed is at most the
\* number of lanes flagged in the tick; and while a call runs, self.data has
\* one row per active lane.
C29_ActiveLaneBound ==
  /\ (n_episode # NoneVal /\ pc = "step") =>
       Len(ready_env_ids) <= n_episode - episode_count
  /\ (n_episode # NoneVal /\ pc = "finish") =>
       (Len(ready_env_ids) - (n_episode - (episode_count + Len(done_envs))))
         <= Len(done_envs)
  /\ (pc \in {"step", "lane", "add", "finish"}) => Len(data) = Len(ready_env_ids)

\* A tick starts with one lane left for the one episode still needed, after
\* a tick in which both environments completed.
C29_Witness ==
  /\ pc = "step"
  /\ n_episode = 3
  /\ episode_count = 2
  /\ Len(ready_env_ids) = 1
  /\ Len(done_envs) = 2

\* --------------------------------------------------------------------- C30
\* C30: when the completion handling of a tick is over, no pending record is
\* held for any slot of an environment that was flagged complete and reset in
\* that tick.
C30_NoPendingAfterCompletion ==
  (pc \in {"step", "break"}) =>
    \A e \in Range(reset_call.global) :
      \A b \in SlotsOfEnv(e) : b \notin DOMAIN temp_data

\* --------------------------------------------------------------------- C31
\* C31: when the completion handling of a tick of the collective collector
\* is over, the accumulated transitions and the accumulated slot ids of every
\* environment flagged complete in that tick are empty.
C31_AccumulatorEmptyAfterCompletion ==
  (variant = "collective" /\ pc \in {"step", "break"}) =>
    \A e \in Range(reset_call.global) :
      /\ temp_buffer_data.exps_to_save[e] = <<>>
      /\ temp_buffer_data.buffer_ids_to_save[e] = <<>>

\* --------------------------------------------------------------------- C32
\* The record appended by the lane iteration that is being taken when it
\* completes the pending record of the next agent: the basic collector
\* appends it to the tick's batch, the collective one to the environment's
\* accumulated round, which the same iteration may move to the batch.
CompletedRecord ==
  LET e == data[env_idx + 1].info.env_id
      acc == temp_buffer_data.exps_to_save[e]
  IN IF variant = "basic"
       THEN experience_to_save'[Len(experience_to_save) + 1]
       ELSE IF temp_buffer_data'.exps_to_save[e] = <<>>
              THEN experience_to_save'[Len(experience_to_save) + Len(acc) + 1]
              ELSE temp_buffer_data'.exps_to_save[e][Len(acc) + 1]

\* C32: a lane iteration that completes a pending record appends a record
\* whose observation, action and policy output are those of the pending
\* record and whose reward, next observation, terminated, truncated, done
\* and info are those of the lane's row of this tick; and no step changes a
\* pending record that stays in the store, other than a lane iteration that
\* stores its own row under that slot.
C32_CompletionTouchesOutcomeOnly ==
  [][ /\ (pc = "lane" /\ pc' # "raised"
          /\ BufferId(data[env_idx + 1].info.env_id,
                      data[env_idx + 1].obs_next.agent_id) \in DOMAIN temp_data) =>
           LET row == data[env_idx + 1]
               pending == temp_data[BufferId(row.info.env_id, row.obs_next.agent_id)]
               rec == CompletedRecord
           IN /\ rec.obs = pending.obs
              /\ rec.act = pending.act
              /\ rec.policy = pending.policy
              /\ rec.rew = row.rew
              /\ rec.obs_next = row.obs_next
              /\ rec.terminated = row.terminated
              /\ rec.truncated = row.truncated
              /\ rec.done = row.done
              /\ rec.info.env_id = row.info.env_id
              /\ rec.info.environment_step = row.info.environment_step
              /\ rec.info.explicit_reset = row.info.explicit_reset
      /\ \A b \in (DOMAIN temp_data) \cap (DOMAIN temp_data') :
           \/ temp_data'[b] = temp_data[b]
           \/ /\ pc = "lane"
              /\ b = BufferId(data[env_idx + 1].info.env_id,
                              data[env_idx + 1].obs.agent_id)
              /\ temp_data'[b] = data[env_idx + 1]
    ]_vars

\* A record stored two ticks ago or earlier has just been completed: its
\* action is older than the reward it received.
C32_Witness ==
  /\ pc = "finish"
  /\ \E k \in 1 .. Len(buffer_add.batch) :
       /\ buffer_add.batch[k].rew = tick
       /\ buffer_add.batch[k].act + 2 <= tick

\* --------------------------------------------------------------------- C33
\* The pending records held under the slots env_id * agents_num ..
\* env_id * agents_num + agents_num - 1 of environment e.
PendingRecordsOf(dict, e) ==
  [b \in {x \in DOMAIN dict : x \div AgentsNum = e} |-> dict[b]]

\* C33: a lane iteration for environment e leaves, for every other
\* environment, the pending records of its slots, its done list, its ready
\* and filling arrays and its accumulated round as they are.
C33_LaneTouchesOwnEnvOnly ==
  [][ (pc = "lane") =>
        \A e2 \in Envs \ {data[env_idx + 1].info.env_id} :
          /\ PendingRecordsOf(temp_data', e2) = PendingRecordsOf(temp_data, e2)
          /\ done_agents_per_env'[e2] = done_agents_per_env[e2]
          /\ temp_buffer_data'.ready[e2] = temp_buffer_data.ready[e2]
          /\ temp_buffer_data'.filling[e2] = temp_buffer_data.filling[e2]
          /\ temp_buffer_data'.exps_to_save[e2] = temp_buffer_data.exps_to_save[e2]
          /\ temp_buffer_data'.buffer_ids_to_save[e2] =
               temp_buffer_data.buffer_ids_to_save[e2]
    ]_vars

\* Both lanes of a tick have been processed; each environment holds a
\* pending record and a done-list entry of its own.
C33_Witness ==
  /\ pc = "add"
  /\ env_idx = 2
  /\ \A e \in Envs :
       /\ PendingRecordsOf(temp_data, e) # EmptyDict
       /\ Len(done_agents_per_env[e]) = 1

\* --------------------------------------------------------------------- C34
\* Rows written so far to all sub-buffers.
RECURSIVE SumIndex(_, _)
SumIndex(idx, S) ==
  IF S = {} THEN 0
  ELSE LET b == CHOOSE x \in S : TRUE IN idx[b] + SumIndex(idx, S \ {b})

C35_StepCountIsRoundsFlushed ==
  [][ (variant = "collective") =>
        /\ (pc = "idle" /\ pc' = "step") => step_count' = 0
        /\ (pc = "lane") =>
             step_count' - step_count =
               (IF Len(buffer_ids_to_save') > Len(buffer_ids_to_save) THEN 1 ELSE 0)
        /\ (pc \notin {"idle", "lane"}) => step_count' = step_count
    ]_vars

\* A round of two transitions of one environment has been flushed and
\* counted as one step.
C35_Witness ==
  /\ variant = "collective"
  /\ pc = "finish"
  /\ step_count = 1
  /\ Len(buffer_add.buffer_ids) = 2
  /\ EnvOf(buffer_add.buffer_ids[1]) = EnvOf(buffer_add.buffer_ids[2])

====
